---- MODULE Spec2Model ----
(***************************************************************************)
(* Model of rat_brain_atlas_api.py: derivation of the implant target       *)
(* points, the atlas lookups (one metadata request and the plane image     *)
(* fetches per point), the marker overlay pass and the rendering of the    *)
(* review grids.                                                           *)
(*                                                                         *)
(* Numbers.  Lengths are integers in units of 1/2000 micron, so that       *)
(* 1 mm = 2000000 units and 1 micron = 2000 units.  Sines and cosines are  *)
(* given in thousandths for the angles of the table below; with these      *)
(* units every product sin * span_mm / 2 of the program is an integer.     *)
(* Pixel values of a metadata body are given in tenths, so that the        *)
(* truncation done by int() is visible.                                    *)
(***************************************************************************)
EXTENDS Integers, Sequences, FiniteSets, TLC

VARIABLES
    HAS_PIL,      \* _HAS_PIL: whether Pillow could be imported
    server,       \* the kind of body the atlas service sends in this run
    args,         \* the arguments of plot_implant_coords
    pc,           \* position of the call of plot_implant_coords
    pts,          \* the derived triplets [bot, top]
    k,            \* index of the point being looked up (1..3 bottom, 4..6 top)
    plane_i,      \* index in PlanesToFetch of the next image fetch
    slice_views,  \* the bundle under construction inside rat_brain_atlas
    S,            \* results of the completed lookups, in call order
    s_comb_bot,   \* local s_comb_bot
    s_comb_top,   \* local s_comb_top
    requests,     \* history of the HTTP requests issued, with their outcomes
    figs,         \* the rendered grids
    ret,          \* the returned pair, None before the return and after a raise
    last_overlay  \* per group, the arguments of the last overlay call made on it

vars == <<HAS_PIL, server, args, pc, pts, k, plane_i, slice_views, S,
          s_comb_bot, s_comb_top, requests, figs, ret, last_overlay>>

\* Python's None; every optional value of the model is a record.
None == [none |-> TRUE]

\* A float argument is either NaN or a number (microns).
NaN == [nan |-> TRUE]
Float(v) == [nan |-> FALSE, val |-> v]
isnan(f) == f.nan

\* At most this many lookups of one run have failing image fetches.
MaxFailLookups == 1

(***************************************************************************)
(* Angle geometry                                                          *)
(***************************************************************************)
Angles == {-180, -90, -45, -30, 0, 30, 45, 90, 180}

SinTab == [d \in {0, 30, 45, 90, 180} |->
             CASE d = 0 -> 0 [] d = 30 -> 500 [] d = 45 -> 707
               [] d = 90 -> 1000 [] d = 180 -> 0]
CosTab == [d \in {0, 30, 45, 90, 180} |->
             CASE d = 0 -> 1000 [] d = 30 -> 866 [] d = 45 -> 707
               [] d = 90 -> 0 [] d = 180 -> -1000]

\* math.sin(math.radians(deg)), in thousandths
_sind(deg) == IF deg < 0 THEN -SinTab[-deg] ELSE SinTab[deg]
\* math.cos(math.radians(deg)), in thousandths
_cosd(deg) == IF deg < 0 THEN CosTab[-deg] ELSE CosTab[deg]

\* t * x for a sine or cosine t in thousandths
TrigMul(t, x) == (t * x) \div 1000

\* microns / 1000.0, in length units
span_mm(span) == span * 2000
skull_mm(skull_t) == skull_t * 2000
vert_mm(vert_span) == IF ~isnan(vert_span) THEN vert_span.val * 2000 ELSE 0

Point(ap, ml, dv) == [AP |-> ap, ML |-> ml, DV |-> dv]

center_bot(a) == Point(a.AP, a.ML, a.DV + skull_mm(a.skull_t))

left_bot_plus(a) ==
    Point(a.AP - TrigMul(_sind(a.angle), span_mm(a.span) \div 2),
          a.ML - TrigMul(_cosd(a.angle), span_mm(a.span) \div 2),
          a.DV + skull_mm(a.skull_t))

left_bot(a) ==
    Point(a.AP - TrigMul(_sind(-a.angle), span_mm(a.span) \div 2),
          a.ML - TrigMul(_cosd(-a.angle), span_mm(a.span) \div 2),
          a.DV + skull_mm(a.skull_t))

right_bot(a) ==
    Point(a.AP + TrigMul(_sind(-a.angle), span_mm(a.span) \div 2),
          a.ML + TrigMul(_cosd(-a.angle), span_mm(a.span) \div 2),
          a.DV + skull_mm(a.skull_t))

HasTop_truthy(vert_span) == ~isnan(vert_span) /\ vert_span.val # 0

\* not math.isnan(vert_span): the test deciding whether the top triplet is derived
HasTop(vert_span) == ~isnan(vert_span)

\* p - np.array([0.0, 0.0, vert_mm])
Lower(p, vert_span) == Point(p.AP, p.ML, p.DV - vert_mm(vert_span))

Triplet(l, c, r) == [left |-> l, center |-> c, right |-> r]

bottom_triplet(a) == Triplet(left_bot(a), center_bot(a), right_bot(a))

top_triplet(a) ==
    IF HasTop(a.vert_span)
    THEN Triplet(Lower(left_bot(a), a.vert_span),
                 Lower(center_bot(a), a.vert_span),
                 Lower(right_bot(a), a.vert_span))
    ELSE None

\* the i-th point of a triplet, in the order left, center, right
Nth(t, i) == CASE i = 1 -> t.left [] i = 2 -> t.center [] i = 3 -> t.right

\* the point of the k-th lookup: bottom left, center, right, then top
Coords(i) == IF i <= 3 THEN Nth(pts.bot, i) ELSE Nth(pts.top, i - 3)

(***************************************************************************)
(* Slice lookup client                                                     *)
(***************************************************************************)
\* f"{API_BASE}?ml={ml}&ap={ap}&dv={dv}": the query of the metadata request
atlas_url(ml, ap, dv) == [ml |-> ml, ap |-> ap, dv |-> dv]

S_at_swapped(coords) == atlas_url(coords.AP, coords.ML, coords.DV)

\* S_at: coords is (AP, ML, DV); the request is made with ml, ap, dv
S_at(coords) == atlas_url(coords.ML, coords.AP, coords.DV)

\* A pixel value of a body, in tenths: whole for a service that sends JSON
\* integers, fractional for one that sends decimals.
PixelRaw(srv, n) == IF srv = "json" THEN 10 * n ELSE 10 * n + 7

ImageUrl(i, plane) == [pt |-> i, plane |-> plane]

\* The three plane objects of the body answering the lookup of point i.
BodyPlanes(srv, i) ==
    [coronal    |-> [top |-> PixelRaw(srv, i), left |-> PixelRaw(srv, 10 + i),
                     image_url |-> ImageUrl(i, "coronal")],
     sagittal   |-> [top |-> PixelRaw(srv, 20 + i), left |-> PixelRaw(srv, 30 + i),
                     image_url |-> ImageUrl(i, "sagittal")],
     horizontal |-> [top |-> PixelRaw(srv, 40 + i), left |-> PixelRaw(srv, 50 + i),
                     image_url |-> ImageUrl(i, "horizontal")]]

\* The answers the service can give to the metadata request of point i:
\* status is the outcome of requests.get and raise_for_status, parse tells
\* which of r.json() ("fast") and json.loads ("fallback") decodes the body.
Responses(srv, i) ==
    { [status |-> "fail", parse |-> "none", body |-> None],
      [status |-> "ok", parse |-> "none", body |-> None],
      [status |-> "ok", parse |-> "fast",
       body |-> [error |-> "no slice", planes |-> BodyPlanes(srv, i)]],
      [status |-> "ok", parse |-> "fast", body |-> [error |-> "", planes |-> None]],
      [status |-> "ok", parse |-> IF srv = "json" THEN "fast" ELSE "fallback",
       body |-> [error |-> "", planes |-> BodyPlanes(srv, i)]] }

\* int(): truncation toward zero of a value given in tenths
int(t) == IF t >= 0 THEN t \div 10 ELSE -((-t) \div 10)

_plane_swapped(d, key) ==
    [top |-> int(d[key].left), left |-> int(d[key].top),
     image_url |-> d[key].image_url, image |-> None, image_marked |-> None]

_plane(d, key) ==
    [top |-> int(d[key].top), left |-> int(d[key].left),
     image_url |-> d[key].image_url, image |-> None, image_marked |-> None]

\* AtlasResponse.from_json; id is the identity of the object created, the
\* index of the metadata request whose body it is built from.
from_json(d, id) ==
    [id |-> id, coronal |-> _plane(d, "coronal"), sagittal |-> _plane(d, "sagittal"),
     horizontal |-> _plane(d, "horizontal")]

\* the conditions under which rat_brain_atlas raises, in program order
RequestFails(r) == r.status # "ok"
ParseFails(r) == r.parse = "none"
ApiError_ignored(d) == FALSE
ApiError(d) == d.error # ""
BadShape(d) == d.planes = None
Raises(r) ==
    \/ RequestFails(r)
    \/ ParseFails(r)
    \/ ApiError(r.body)
    \/ BadShape(r.body)

PlanesToFetch_again == <<"coronal", "sagittal", "horizontal", "coronal">>

\* for plane in (slice_views.coronal, slice_views.sagittal, slice_views.horizontal)
PlanesToFetch == <<"coronal", "sagittal", "horizontal">>

\* A decoded image: the picture behind url and the circles drawn on it.
Decoded(url) == [src |-> url, marks |-> {}]

\* _read_image: the name Image is unbound when Pillow is missing, and the
\* NameError of Image.open is caught like every other exception.
_read_image(outcome, url) ==
    IF outcome = "ok" /\ HAS_PIL THEN Decoded(url) ELSE None

\* im.copy()
Copy(im) == im
\* draw.ellipse(..., fill=(255, 0, 0)) for each circle (x, y, r)
Draw(im, circles) == [im EXCEPT !.marks = @ \cup circles]

AutoMarkPlane_blank(p) ==
    [p EXCEPT !.image_marked = Draw(Decoded(p.image_url), {<<p.left, p.top, 10>>})]

\* the default marker of radius 10 drawn by rat_brain_atlas
AutoMarkPlane(p) ==
    IF p.image # None
    THEN [p EXCEPT !.image_marked = Draw(Copy(p.image), {<<p.left, p.top, 10>>})]
    ELSE p

AutoMark(sv) ==
    IF HAS_PIL
    THEN [sv EXCEPT !.coronal = AutoMarkPlane(@), !.sagittal = AutoMarkPlane(@),
                    !.horizontal = AutoMarkPlane(@)]
    ELSE sv

(***************************************************************************)
(* Marker overlay engine, consolidation and presentation                   *)
(***************************************************************************)
\* CombinedAtlas(entries=[Sleft, Scenter, Sright])
_consolidate(Sleft, Scenter, Sright) == [entries |-> <<Sleft, Scenter, Sright>>]

\* An optional marker list is None or [list |-> <<(x, y, r), ...>>].
MarkerList(l) == [list |-> l]

\* Python truth of multi_mark_horizontal: None and the empty list are false
Truthy(mmh) == mmh # None /\ mmh.list # <<>>

\* the set of the circles of a marker list
Circles(l) == {l[i] : i \in DOMAIN l}

MarkCoronal_inplace(p, radius_px) ==
    IF p.image # None
    THEN [p EXCEPT !.image = Draw(p.image, {<<p.left, p.top, radius_px>>}),
                   !.image_marked = Draw(p.image, {<<p.left, p.top, radius_px>>})]
    ELSE p

\* Coronal: one marker per entry, drawn on a copy of the unmarked image
MarkCoronal(p, radius_px) ==
    IF p.image # None
    THEN [p EXCEPT !.image_marked = Draw(Copy(p.image), {<<p.left, p.top, radius_px>>})]
    ELSE p

MarkHorizontal_notnone(p, radius_px, mmh) ==
    IF p.image # None
    THEN [p EXCEPT !.image_marked =
            IF mmh # None
            THEN Draw(Copy(p.image), Circles(mmh.list))
            ELSE Draw(Copy(p.image), {<<p.left, p.top, radius_px>>})]
    ELSE p

\* Horizontal: every point of the list, or the entry's own point
MarkHorizontal(p, radius_px, mmh) ==
    IF p.image # None
    THEN [p EXCEPT !.image_marked =
            IF Truthy(mmh)
            THEN Draw(Copy(p.image), Circles(mmh.list))
            ELSE Draw(Copy(p.image), {<<p.left, p.top, radius_px>>})]
    ELSE p

MarkEntry(entry, radius_px, mmh) ==
    [entry EXCEPT !.coronal = MarkCoronal(@, radius_px),
                  !.horizontal = MarkHorizontal(@, radius_px, mmh)]

_insert_markers_on_planes(atlas_struct, radius_px, mmh) ==
    IF ~HAS_PIL
    THEN atlas_struct
    ELSE [entries |-> [i \in DOMAIN atlas_struct.entries |->
                          MarkEntry(atlas_struct.entries[i], radius_px, mmh)]]

\* horiz_triplet / horiz_triplet_t of three lookup results
horiz_triplet(sl, sc, sr, plot_radius) ==
    MarkerList(<<<<sl.horizontal.left, sl.horizontal.top, plot_radius>>,
                 <<sc.horizontal.left, sc.horizontal.top, plot_radius>>,
                 <<sr.horizontal.left, sr.horizontal.top, plot_radius>>>>)

\* _imshow: the picture shown in a cell, or the placeholder text
Unavailable == [text |-> "Image unavailable"]
_imshow(pil_img) == IF pil_img = None THEN Unavailable ELSE pil_img

\* image_marked or image
MarkedOr(p) == IF p.image_marked # None THEN p.image_marked ELSE p.image

\* one figure: row 1 the coronal cells, row 2 the horizontal cells
Grid(comb) ==
    [cells |-> [j \in 1..6 |->
        IF j <= 3
        THEN _imshow(MarkedOr(comb.entries[j].coronal))
        ELSE _imshow(MarkedOr(comb.entries[j - 3].horizontal))]]

(***************************************************************************)
(* plot_implant_coords as a state machine                                  *)
(***************************************************************************)
Args(ap, ml, dv, angle, span, skull_t, vert_span, plot_radius) ==
    [AP |-> ap, ML |-> ml, DV |-> dv, angle |-> angle, span |-> span,
     skull_t |-> skull_t, vert_span |-> vert_span, plot_radius |-> plot_radius]

\* insertion depths: not provided, zero, positive
VertSpans == {NaN, Float(0), Float(1000)}

\* the arguments of the calls explored with the network
CallArgs ==
    {Args(-4000000, 6000000, -8000000, 30, 750, 500, v, 5) : v \in VertSpans}

\* the arguments explored for the geometry alone
GeomArgs ==
    {Args(ap, 6000000, -8000000, an, sp, sk, v, 5) :
        ap \in {-4000000, 1000000}, an \in Angles, sp \in {750, 1000},
        sk \in {0, 500}, v \in VertSpans}

\* the arguments of the overlay calls a caller makes on a returned group
CallerRadii == {3}
CallerLists == {None, MarkerList(<<>>), MarkerList(<<<<1, 2, 3>>, <<4, 5, 6>>>>)}

Start(argset) ==
    /\ HAS_PIL \in BOOLEAN
    /\ server \in {"json", "decimal"}
    /\ args \in argset
    /\ pc = "start"
    /\ pts = None
    /\ k = 1
    /\ plane_i = 1
    /\ slice_views = None
    /\ S = <<>>
    /\ s_comb_bot = None
    /\ s_comb_top = None
    /\ requests = <<>>
    /\ figs = None
    /\ ret = None
    /\ last_overlay = [bot |-> None, top |-> None]

Init == Start(CallArgs)

InitGeom == Start(GeomArgs)

\* the points whose lookup had an image fetch fail so far
FailLookups ==
    {requests[i].pt : i \in {j \in DOMAIN requests :
        requests[j].kind = "image" /\ requests[j].outcome = "fail"}}

\* lines 224-245: the bottom triplet and, when vert_span is a number, the top one
Derive ==
    /\ pc = "start"
    /\ pts' = [bot |-> bottom_triplet(args), top |-> top_triplet(args)]
    /\ pc' = "meta"
    /\ k' = 1
    /\ UNCHANGED <<HAS_PIL, server, args, plane_i, slice_views, S, s_comb_bot,
                   s_comb_top, requests, figs, ret, last_overlay>>

\* rat_brain_atlas, lines 103-129: the metadata request of point k, the
\* parsing of its body, and either the raise or the construction of the bundle
MetaRequest ==
    /\ pc = "meta"
    /\ \E r \in Responses(server, k) :
         /\ requests' = Append(requests,
               [kind |-> "meta", url |-> S_at(Coords(k)), pt |-> k,
                plane |-> "none", resp |-> r,
                outcome |-> IF Raises(r) THEN "raise" ELSE "ok"])
         /\ IF Raises(r)
            THEN /\ pc' = "raised"
                 /\ UNCHANGED <<slice_views, plane_i>>
            ELSE /\ pc' = "image"
                 /\ slice_views' = from_json(r.body.planes, Len(requests) + 1)
                 /\ plane_i' = 1
    /\ UNCHANGED <<HAS_PIL, server, args, pts, k, S, s_comb_bot, s_comb_top,
                   figs, ret, last_overlay>>

\* rat_brain_atlas, lines 132-133: one iteration of the image loop
ImageFetch ==
    /\ pc = "image"
    /\ \E o \in {"ok", "fail"} :
         /\ o = "fail" =>
              k \in FailLookups \/ Cardinality(FailLookups) < MaxFailLookups
         /\ LET pl == PlanesToFetch[plane_i]
                url == slice_views[pl].image_url
            IN /\ requests' = Append(requests,
                     [kind |-> "image", url |-> url, pt |-> k, plane |-> pl,
                      resp |-> None, outcome |-> o])
               /\ slice_views' =
                     [slice_views EXCEPT ![pl].image = _read_image(o, url)]
    /\ IF plane_i = Len(PlanesToFetch)
       THEN pc' = "mark" /\ plane_i' = plane_i
       ELSE pc' = pc /\ plane_i' = plane_i + 1
    /\ UNCHANGED <<HAS_PIL, server, args, pts, k, S, s_comb_bot, s_comb_top,
                   figs, ret, last_overlay>>

\* rat_brain_atlas, lines 135-146: the default markers and the return to S_at
FinishLookup ==
    /\ pc = "mark"
    /\ S' = Append(S, AutoMark(slice_views))
    /\ slice_views' = None
    /\ pc' = IF k = 3 THEN "consolidate_bot"
             ELSE IF k = 6 THEN "consolidate_top" ELSE "meta"
    /\ k' = IF k \in {3, 6} THEN k ELSE k + 1
    /\ UNCHANGED <<HAS_PIL, server, args, pts, plane_i, s_comb_bot, s_comb_top,
                   requests, figs, ret, last_overlay>>

\* lines 257-269: the bottom group and its markers
ConsolidateBot ==
    /\ pc = "consolidate_bot"
    /\ s_comb_bot' = _insert_markers_on_planes(
                        _consolidate(S[1], S[2], S[3]), args.plot_radius,
                        horiz_triplet(S[1], S[2], S[3], args.plot_radius))
    /\ last_overlay' = [last_overlay EXCEPT !.bot =
            [radius_px |-> args.plot_radius,
             mmh |-> horiz_triplet(S[1], S[2], S[3], args.plot_radius)]]
    /\ IF pts.top # None
       THEN pc' = "meta" /\ k' = 4
       ELSE pc' = "render" /\ k' = k
    /\ UNCHANGED <<HAS_PIL, server, args, pts, plane_i, slice_views, S,
                   s_comb_top, requests, figs, ret>>

\* lines 273-280: the top group and its markers
ConsolidateTop ==
    /\ pc = "consolidate_top"
    /\ s_comb_top' = _insert_markers_on_planes(
                        _consolidate(S[4], S[5], S[6]), args.plot_radius,
                        horiz_triplet(S[4], S[5], S[6], args.plot_radius))
    /\ last_overlay' = [last_overlay EXCEPT !.top =
            [radius_px |-> args.plot_radius,
             mmh |-> horiz_triplet(S[4], S[5], S[6], args.plot_radius)]]
    /\ pc' = "render"
    /\ UNCHANGED <<HAS_PIL, server, args, pts, k, plane_i, slice_views, S,
                   s_comb_bot, requests, figs, ret>>

\* lines 295-317: the bottom grid, the top grid when there is a top group,
\* and the return of the pair
Render ==
    /\ pc = "render"
    /\ figs' = [bot |-> Grid(s_comb_bot),
                top |-> IF s_comb_top # None THEN Grid(s_comb_top) ELSE None]
    /\ ret' = [bot |-> s_comb_bot, top |-> s_comb_top]
    /\ pc' = "done"
    /\ UNCHANGED <<HAS_PIL, server, args, pts, k, plane_i, slice_views, S,
                   s_comb_bot, s_comb_top, requests, last_overlay>>

\* a later call of _insert_markers_on_planes by the caller on a returned group
Overlay ==
    /\ pc = "done"
    /\ \E g \in {"bot", "top"}, radius_px \in CallerRadii, mmh \in CallerLists :
         /\ ret[g] # None
         /\ ret' = [ret EXCEPT ![g] = _insert_markers_on_planes(@, radius_px, mmh)]
         /\ last_overlay' = [last_overlay EXCEPT ![g] =
                                [radius_px |-> radius_px, mmh |-> mmh]]
    /\ UNCHANGED <<HAS_PIL, server, args, pc, pts, k, plane_i, slice_views, S,
                   s_comb_bot, s_comb_top, requests, figs>>

Next ==
    \/ Derive
    \/ MetaRequest
    \/ ImageFetch
    \/ FinishLookup
    \/ ConsolidateBot
    \/ ConsolidateTop
    \/ Render
    \/ Overlay

Spec == Init /\ [][Next]_vars

NextGeom == Derive

SpecGeom == InitGeom /\ [][NextGeom]_vars

(***************************************************************************)
(* Properties                                                              *)
(***************************************************************************)
Planes == {"coronal", "sagittal", "horizontal"}

\* the requests of the history, by kind and point
MetaOf(n) == {i \in DOMAIN requests : requests[i].kind = "meta" /\ requests[i].pt = n}
ImagesOf(n) == {i \in DOMAIN requests : requests[i].kind = "image" /\ requests[i].pt = n}
ImageOf(n, pl) == {i \in ImagesOf(n) : requests[i].plane = pl}

\* a metadata answer that is a failure in the sense of the error taxonomy
MetaFailed(r) ==
    \/ r.status # "ok"
    \/ r.parse = "none"
    \/ r.body.error # ""

\* the groups that exist in the current state, with the index in S of the
\* lookup result before their first entry
LiveGroups ==
    {x \in {[grp |-> s_comb_bot, off |-> 0], [grp |-> s_comb_top, off |-> 3]} :
        x.grp # None}
    \cup (IF ret = None THEN {}
          ELSE {x \in {[grp |-> ret.bot, off |-> 0], [grp |-> ret.top, off |-> 3]} :
                  x.grp # None})

\* every bundle of the current state
LiveBundles ==
    (IF slice_views = None THEN {} ELSE {slice_views})
    \cup {S[n] : n \in DOMAIN S}
    \cup UNION {{x.grp.entries[i] : i \in DOMAIN x.grp.entries} : x \in LiveGroups}

\* s = span/1000/2 and skull_mm, in length units
HalfSpan(a) == a.span * 1000
SkullOffset(a) == a.skull_t * 2000
\* sin(angle) * s and cos(angle) * s
SinS(a) == (_sind(a.angle) * HalfSpan(a)) \div 1000
CosS(a) == (_cosd(a.angle) * HalfSpan(a)) \div 1000

\* C1 as stated: the bottom points are center (AP, ML, DV + skull_mm),
\* left (AP - sin(angle)*s, ML - cos(angle)*s, DV + skull_mm) and
\* right (AP + sin(angle)*s, ML + cos(angle)*s, DV + skull_mm).
C1_AsStated ==
    pts # None =>
        /\ pts.bot.center = Point(args.AP, args.ML, args.DV + SkullOffset(args))
        /\ pts.bot.left = Point(args.AP - SinS(args), args.ML - CosS(args),
                                args.DV + SkullOffset(args))
        /\ pts.bot.right = Point(args.AP + SinS(args), args.ML + CosS(args),
                                 args.DV + SkullOffset(args))

\* C1 amended: the offsets are taken with the negated angle, so the bottom
\* points are center (AP, ML, DV + skull_mm), left (AP + sin(angle)*s,
\* ML - cos(angle)*s, DV + skull_mm) and right (AP - sin(angle)*s,
\* ML + cos(angle)*s, DV + skull_mm); for angle 0, base (-2.0, 3.0, -4.0),
\* span 750 and skull 500 they are (-2.0, 3.0, -3.5), (-2.0, 2.625, -3.5)
\* and (-2.0, 3.375, -3.5).
C1_NegatedAngle ==
    pts # None =>
        /\ pts.bot.center = Point(args.AP, args.ML, args.DV + SkullOffset(args))
        /\ pts.bot.left = Point(args.AP + SinS(args), args.ML - CosS(args),
                                args.DV + SkullOffset(args))
        /\ pts.bot.right = Point(args.AP - SinS(args), args.ML + CosS(args),
                                 args.DV + SkullOffset(args))
        /\ (/\ args.angle = 0 /\ args.AP = -4000000 /\ args.ML = 6000000
            /\ args.DV = -8000000 /\ args.span = 750 /\ args.skull_t = 500)
           => /\ pts.bot.center = Point(-4000000, 6000000, -7000000)
              /\ pts.bot.left = Point(-4000000, 5250000, -7000000)
              /\ pts.bot.right = Point(-4000000, 6750000, -7000000)

\* the points have been derived for an angle whose sine is not zero
C1_Witness == pts # None /\ _sind(args.angle) # 0 /\ _cosd(args.angle) # 0

\* C2: once the metadata request of a point has failed (transport, parse or
\* error field), it is the last request ever issued (no image fetch, no
\* lookup of a later point), no bundle was built for the point, the call has
\* raised, and nothing is returned or rendered.
C2_MetaFailureAborts ==
    \A i \in DOMAIN requests :
        (requests[i].kind = "meta" /\ MetaFailed(requests[i].resp)) =>
            /\ i = Len(requests)
            /\ pc = "raised"
            /\ slice_views = None
            /\ Len(S) = requests[i].pt - 1
            /\ ret = None
            /\ figs = None

\* the error field of the body of a top point's lookup aborted the call
\* after the bottom group had been completed
C2_Witness ==
    /\ pc = "raised"
    /\ s_comb_bot # None
    /\ \E i \in DOMAIN requests :
         /\ requests[i].kind = "meta" /\ requests[i].pt = 5
         /\ requests[i].resp.status = "ok"
         /\ requests[i].resp.parse # "none"
         /\ requests[i].resp.body.error # ""

\* C3: without an insertion depth there is no top triplet, no top lookup, no
\* top group and no top grid; with depth 0 there is a top group and its points
\* equal the bottom points; with a positive depth each top point is the bottom
\* point with DV decreased by vert_span/1000 and AP, ML unchanged.
C3_DepthTriState ==
    /\ isnan(args.vert_span) =>
         /\ pts # None => pts.top = None
         /\ \A i \in DOMAIN requests : requests[i].pt <= 3
         /\ s_comb_top = None
         /\ ret # None => ret.top = None
         /\ figs # None => figs.top = None
    /\ ~isnan(args.vert_span) =>
         /\ pts # None =>
              /\ pts.top # None
              /\ \A i \in 1..3 :
                   Nth(pts.top, i) =
                     [Nth(pts.bot, i) EXCEPT !.DV = @ - args.vert_span.val * 2000]
              /\ args.vert_span.val = 0 =>
                   \A i \in 1..3 : Nth(pts.top, i) = Nth(pts.bot, i)
         /\ ret # None =>
              /\ ret.top # None
              /\ Len(ret.top.entries) = 3
              /\ \A i \in 1..3 : \A m \in MetaOf(3 + i) :
                   requests[m].url =
                     atlas_url(Nth(pts.bot, i).ML, Nth(pts.bot, i).AP,
                               Nth(pts.bot, i).DV - args.vert_span.val * 2000)
         /\ figs # None => figs.top # None

\* a call with depth 0 has returned its top group
C3_Witness ==
    /\ pc = "done"
    /\ ~isnan(args.vert_span)
    /\ args.vert_span.val = 0
    /\ ret.top # None
    /\ figs.top # None

\* C4: the call raises only on a metadata failure or a body without planes;
\* every lookup whose metadata request succeeded returns a bundle with the
\* three planes, where a plane whose fetch failed has image and image_marked
\* absent, a plane whose image was decoded has its image, and top, left
\* (the integer of the body's value, the value itself when it is whole) and
\* image_url are those of the metadata body whatever images failed.
C4_ImageFailuresAbsorbed ==
    /\ pc = "raised" =>
         /\ requests[Len(requests)].kind = "meta"
         /\ \/ MetaFailed(requests[Len(requests)].resp)
            \/ requests[Len(requests)].resp.body.planes = None
    /\ \A n \in DOMAIN S :
         LET I == ImagesOf(n)
             planes == requests[S[n].id].resp.body.planes
         IN /\ requests[S[n].id].kind = "meta"
            /\ requests[S[n].id].pt = n
            /\ \A pl \in Planes :
                 LET p == S[n][pl]
                     d == planes[pl]
                     F == {f \in I : requests[f].plane = pl}
                 IN /\ Cardinality(F) = 1
                    /\ \A f \in F :
                         /\ requests[f].outcome = "fail" =>
                              p.image = None /\ p.image_marked = None
                         /\ (requests[f].outcome = "ok" /\ HAS_PIL) =>
                              p.image = [src |-> d.image_url, marks |-> {}]
                    /\ p.top = int(d.top)
                    /\ p.left = int(d.left)
                    /\ d.top % 10 = 0 => 10 * p.top = d.top
                    /\ d.left % 10 = 0 => 10 * p.left = d.left
                    /\ p.image_url = d.image_url

\* a lookup answered with whole pixel values returned a bundle although its
\* three image fetches failed, and another returned one with a single failure
C4_Witness ==
    /\ server = "json"
    /\ \E n \in DOMAIN S :
         \A pl \in Planes : \A f \in ImageOf(n, pl) : requests[f].outcome = "fail"
    /\ Len(S) >= 2

\* C5: in every plane of every bundle, an absent image has no marked copy,
\* and a marked copy is a picture of the same image as the plane's image.
C5_MarkedDerivedFromImage ==
    \A b \in LiveBundles : \A pl \in Planes :
        /\ b[pl].image = None => b[pl].image_marked = None
        /\ b[pl].image_marked # None =>
             /\ b[pl].image # None
             /\ b[pl].image_marked.src = b[pl].image.src
             /\ b[pl].image.src = b[pl].image_url

\* after a caller's overlay call, a returned bundle has a plane without image
\* next to a plane with a marked copy
C5_Witness ==
    /\ pc = "done"
    /\ last_overlay.bot # None
    /\ last_overlay.bot.radius_px # args.plot_radius
    /\ \E i \in 1..3 :
         /\ ret.bot.entries[i].coronal.image = None
         /\ ret.bot.entries[i].horizontal.image_marked # None

\* C6 as stated: without Pillow the overlay pass leaves image_marked unset,
\* and every plane whose image fetch succeeded has its unmarked image in the
\* returned bundle and in its cell of the grid.
C6_FallbackToUnmarked ==
    (~HAS_PIL /\ pc = "done") =>
        \A x \in {[grp |-> ret.bot, off |-> 0, fig |-> figs.bot],
                  [grp |-> ret.top, off |-> 3, fig |-> figs.top]} :
            x.grp # None =>
                \A i \in 1..3 : \A pl \in Planes :
                    /\ x.grp.entries[i][pl].image_marked = None
                    /\ \A f \in ImageOf(x.off + i, pl) :
                         requests[f].outcome = "ok" =>
                            /\ x.grp.entries[i][pl].image # None
                            /\ pl = "coronal" => x.fig.cells[i] # Unavailable
                            /\ pl = "horizontal" => x.fig.cells[3 + i] # Unavailable

\* what an overlay call may change in a bundle: image_marked of the coronal
\* and of the horizontal plane
SameButMarked(b, orig) ==
    /\ b.id = orig.id
    /\ b.sagittal = orig.sagittal
    /\ \A pl \in {"coronal", "horizontal"} :
         /\ b[pl].top = orig[pl].top
         /\ b[pl].left = orig[pl].left
         /\ b[pl].image_url = orig[pl].image_url
         /\ b[pl].image = orig[pl].image

\* C7: after any number of overlay calls every bundle of every group equals
\* the result its lookup returned, before the first overlay call, in
\* everything but image_marked of the coronal and horizontal planes.
C7_OverlayFrame ==
    \A x \in LiveGroups : \A i \in DOMAIN x.grp.entries :
        SameButMarked(x.grp.entries[i], S[x.off + i])

\* a caller's overlay call has replaced the marked copies made by the call
\* inside plot_implant_coords, on a group with images
C7_Witness ==
    /\ pc = "done"
    /\ ret.bot # s_comb_bot
    /\ last_overlay.bot.radius_px # args.plot_radius
    /\ \A i \in 1..3 : ret.bot.entries[i].coronal.image # None
    /\ \E i \in 1..3 : ret.bot.entries[i].sagittal.image_marked # None

\* C8: per point there is one metadata request, then at most three image
\* fetches, one per plane and only after the metadata request succeeded;
\* the requests of a point are not interleaved with those of another; the
\* call issues at most 24 requests with an insertion depth, 12 without.
C8_RequestDiscipline ==
    /\ \A n \in 1..6 :
         LET M == MetaOf(n)
             I == ImagesOf(n)
         IN /\ Cardinality(M) <= 1
            /\ Cardinality(I) <= 3
            /\ \A f, g \in I : f # g => requests[f].plane # requests[g].plane
            /\ \A f \in I :
                 \E m \in M : m < f /\ ~MetaFailed(requests[m].resp)
            /\ n \in DOMAIN S => Cardinality(M) = 1
    /\ \A i \in 1..(Len(requests) - 1) : requests[i].pt <= requests[i + 1].pt
    /\ \A i \in DOMAIN requests : requests[i].pt \in 1..6
    /\ Len(requests) <= IF isnan(args.vert_span) THEN 12 ELSE 24

\* a call with an insertion depth has finished after 24 requests
C8_Witness == pc = "done" /\ Len(requests) = 24

\* the marked copy of a horizontal plane p for the arguments c of an overlay
OwnCircle(p, radius_px) == {<<p.left, p.top, radius_px>>}
ExpectedHorizontal(p, c) ==
    [src |-> p.image.src,
     marks |-> IF c.mmh # None /\ Len(c.mmh.list) > 0
               THEN {c.mmh.list[j] : j \in 1..Len(c.mmh.list)}
               ELSE OwnCircle(p, c.radius_px)]

\* C9: the horizontal plane of every bundle with a horizontal image carries,
\* after an overlay call with a non-empty list, one circle per point of the
\* list, and after a call with no list or an empty one, the single circle of
\* its own (left, top) with radius_px; the list plot_implant_coords passes
\* for a group is the three (horizontal.left, horizontal.top, plot_radius) of
\* the lookup results of that group's own points.
C9_HorizontalMarkers ==
    /\ \A x \in {[grp |-> s_comb_bot, off |-> 0], [grp |-> s_comb_top, off |-> 3]} :
         x.grp # None =>
            \A i \in 1..3 :
               x.grp.entries[i].horizontal.image # None =>
                  x.grp.entries[i].horizontal.image_marked =
                     [src |-> x.grp.entries[i].horizontal.image.src,
                      marks |-> {<<S[x.off + j].horizontal.left,
                                   S[x.off + j].horizontal.top,
                                   args.plot_radius>> : j \in 1..3}]
    /\ ret # None =>
         \A g \in {"bot", "top"} :
            ret[g] # None =>
               \A i \in 1..3 :
                  ret[g].entries[i].horizontal.image # None =>
                     ret[g].entries[i].horizontal.image_marked =
                        ExpectedHorizontal(ret[g].entries[i].horizontal,
                                           last_overlay[g])

\* a caller's overlay call with an empty list on a group with a horizontal
\* image, in a call that also built a top group
C9_Witness ==
    /\ pc = "done"
    /\ ret.top # None
    /\ last_overlay.bot.mmh = MarkerList(<<>>)
    /\ last_overlay.top.mmh # None
    /\ Len(last_overlay.top.mmh.list) = 2
    /\ \E i \in 1..3 : ret.bot.entries[i].horizontal.image # None
    /\ \E i \in 1..3 : ret.top.entries[i].horizontal.image # None

\* C10: every group holds three bundles; the i-th is the object built from
\* the metadata request of the i-th point of the group's own triplet, made
\* with ml, ap and dv of that point; bottom and top share no bundle.
C10_GroupOrder ==
    /\ \A x \in LiveGroups :
         /\ Len(x.grp.entries) = 3
         /\ \A i \in 1..3 :
              LET pt == Nth(IF x.off = 0 THEN pts.bot ELSE pts.top, i)
                  m == x.grp.entries[i].id
              IN /\ m \in MetaOf(x.off + i)
                 /\ requests[m].url.ml = pt.ML
                 /\ requests[m].url.ap = pt.AP
                 /\ requests[m].url.dv = pt.DV
    /\ \A x, y \in LiveGroups :
         x.off # y.off =>
            \A i, j \in 1..3 : x.grp.entries[i].id # y.grp.entries[j].id

\* both groups have been returned
C10_Witness == pc = "done" /\ ret.bot # None /\ ret.top # None

====
